---- MODULE Spec2Model ----
(***************************************************************************)
(* A model of retirement_model.py: the Gompertz survival curve, the        *)
(* lifetime-annuity pricer, the Age Pension means test and the year-by-    *)
(* year drawdown loop of simulate_retirement.                              *)
(*                                                                         *)
(* Python floats are modelled as binary floating-point numbers m * 2^e     *)
(* with a Precision-bit significand and round-to-nearest-even after every  *)
(* arithmetic operation, as IEEE 754 binary64 does with 53 bits.  A        *)
(* numeric literal denotes the nearest representable number.  The          *)
(* exponent is unbounded: nothing in the program comes near overflow or    *)
(* underflow.                                                              *)
(***************************************************************************)
EXTENDS Integers, Sequences, FiniteSets, TLC

(***************************************************************************)
(* Bounds of the model.                                                    *)
(***************************************************************************)
\* bits of the significand of a float
Precision == 12
\* the longest simulated horizon: max_age - retire_age <= MaxSpan
MaxSpan == 2
\* the longest annuity deferral period, in years
MaxDeferral == 1

(***************************************************************************)
(* Floating-point arithmetic.                                              *)
(***************************************************************************)
Abs(n) == IF n < 0 THEN -n ELSE n

Sgn(n) == IF n < 0 THEN -1 ELSE 1

\* the number of bits of the natural number n > 0, by binary search
BitLen2(n) == IF n >= 2 THEN 2 ELSE 1

BitLen4(n) == IF n >= 4 THEN 2 + BitLen2(n \div 4) ELSE BitLen2(n)

BitLen8(n) == IF n >= 16 THEN 4 + BitLen4(n \div 16) ELSE BitLen4(n)

BitLen16(n) == IF n >= 256 THEN 8 + BitLen8(n \div 256) ELSE BitLen8(n)

BitLen(n) == IF n >= 65536 THEN 16 + BitLen16(n \div 65536) ELSE BitLen16(n)

Zero == [m |-> 0, e |-> 0]

\* the value of an expression evaluated once: S is the set of that one value
The(S) == CHOOSE v \in S : TRUE

\* the float nearest to M * 2^E, ties to even
Norm(M, E) ==
    IF M = 0 THEN Zero
    ELSE The({ IF k <= 0
               THEN [m |-> M * 2^(-k), e |-> E + k]
               ELSE LET a    == Abs(M)
                        q    == a \div 2^k
                        rem  == a % 2^k
                        half == 2^(k-1)
                        up   == rem > half \/ (rem = half /\ q % 2 = 1)
                        q1   == IF up THEN q + 1 ELSE q
                    IN IF q1 = 2^Precision
                       THEN [m |-> Sgn(M) * 2^(Precision-1), e |-> E + k + 1]
                       ELSE [m |-> Sgn(M) * q1, e |-> E + k]
               : k \in {BitLen(Abs(M)) - Precision} })

\* the float of an integer literal or an int operand
FromInt(n) == Norm(n, 0)

One == FromInt(1)

FNeg(x) == The({ [m |-> -a.m, e |-> a.e] : a \in {x} })

\* x + y, correctly rounded
FAdd(x, y) ==
    The({ IF a.m = 0 THEN b
          ELSE IF b.m = 0 THEN a
          ELSE LET hi == IF a.e >= b.e THEN a ELSE b
                   lo == IF a.e >= b.e THEN b ELSE a
                   d  == hi.e - lo.e
               IN IF d >= Precision + 2 THEN hi
                  ELSE Norm(hi.m * 2^d + lo.m, lo.e)
          : a \in {x}, b \in {y} })

\* x - y, correctly rounded
FSub(x, y) == FAdd(x, FNeg(y))

\* x * y, correctly rounded
FMul(x, y) == The({ Norm(a.m * b.m, a.e + b.e) : a \in {x}, b \in {y} })

\* x / y for y # 0, correctly rounded (two guard bits and a sticky bit)
FDiv(x, y) ==
    The({ IF a.m = 0 THEN Zero
          ELSE LET num == Abs(a.m) * 2^(Precision + 2)
                   q   == num \div Abs(b.m)
                   rem == num % Abs(b.m)
                   M   == 2 * q + (IF rem # 0 THEN 1 ELSE 0)
               IN Norm(Sgn(a.m) * Sgn(b.m) * M, a.e - b.e - Precision - 3)
          : a \in {x}, b \in {y} })

\* x < y
FLt(x, y) == FSub(x, y).m < 0

\* x <= y
FLe(x, y) == FSub(x, y).m <= 0

\* Python's min(x, y): y when y < x, else x
FMin(x, y) == The({ IF FLt(b, a) THEN b ELSE a : a \in {x}, b \in {y} })

\* Python's max(x, y): y when y > x, else x
FMax(x, y) == The({ IF FLt(a, b) THEN b ELSE a : a \in {x}, b \in {y} })

\* the float literal n/d
Lit(n, d) == FDiv(FromInt(n), FromInt(d))

\* x ** t for an int t >= 0
RECURSIVE FPow(_, _)
FPow(x, t) == IF t = 0 THEN One ELSE The({ FMul(FPow(a, t - 1), a) : a \in {x} })

\* floor of a float x >= 0, as an integer
Floor(x) ==
    IF x.e >= 0 THEN x.m * 2^(x.e)
    ELSE IF -x.e >= Precision THEN 0
    ELSE x.m \div 2^(-x.e)

\* e^k * 2^15 for k = 0..10, to the nearest integer
EPowTable ==
    << 32768, 89073, 242125, 658163, 1789072, 4863202,
       13219555, 35934475, 97680031, 265521854, 721763231 >>

\* 1 + f/n * inner, a step of Horner's rule for the Taylor series of e^f
ExpStep(f, n, inner) == FAdd(One, FMul(FDiv(f, FromInt(n)), inner))

\* the Taylor series of e^f to the term f^8/8!, for 0 <= f < 1
ExpSeries(f) ==
    ExpStep(f, 1, ExpStep(f, 2, ExpStep(f, 3, ExpStep(f, 4,
    ExpStep(f, 5, ExpStep(f, 6, ExpStep(f, 7, ExpStep(f, 8, One))))))))

\* math.exp(x) for 0 <= x < 11: e^floor(x) times the series of the fraction
ExpPos(x) ==
    The({ FMul(Norm(EPowTable[Floor(a) + 1], -15),
               The({ ExpSeries(f) : f \in {FSub(a, FromInt(Floor(a)))} }))
          : a \in {x} })

\* math.exp(x), for -11 < x < 11
Exp(x) ==
    The({ IF a.m < 0 THEN FDiv(One, ExpPos(FNeg(a))) ELSE ExpPos(a) : a \in {x} })

(***************************************************************************)
(* numpy and pandas containers.                                            *)
(***************************************************************************)
\* np.arange(lo, hi): the integers lo, ..., hi-1, none when hi <= lo
arange(lo, hi) == [k \in 1..(IF hi > lo THEN hi - lo ELSE 0) |-> lo + k - 1]

\* the exception pd.Series(values, index) raises when the lengths differ
ValueError == [raised |-> "ValueError"]

\* pd.Series(values, index=index)
Series(values, index) ==
    IF Len(values) = Len(index)
    THEN [index |-> index, values |-> values]
    ELSE ValueError

\* series.loc[age] for an age of the index
Loc(series, age) ==
    series.values[CHOOSE k \in 1..Len(series.index) : series.index[k] = age]

(***************************************************************************)
(* The state of one call of the module's functions.                        *)
(***************************************************************************)
VARIABLES
    pc,                 \* "idle", "loop" (in simulate_retirement's loop),
                        \* "done" (it returned), "fault" (it raised),
                        \* "returned" (another function returned or raised)
    call,               \* the call of survival_curve, annuity_income_schedule
                        \* or age_pension_amount made, with what it returned
    survival_factors,   \* exp(-H) of every sex and age
    params,             \* the arguments of simulate_retirement
    annuity_premium,
    ann_income_series,
    ann_rate,
    r,
    surv,
    bal,
    abp_balances,
    abp_income,
    age_pension,
    annuity_income,
    total_income,
    df                  \* the DataFrame simulate_retirement returns

vars == << pc, call, survival_factors, params, annuity_premium, ann_income_series,
           ann_rate, r, surv, bal, abp_balances, abp_income, age_pension,
           annuity_income, total_income, df >>

simvars == << survival_factors, params, annuity_premium, ann_income_series, ann_rate, r,
              surv, bal, abp_balances, abp_income, age_pension, annuity_income,
              total_income, df >>

(***************************************************************************)
(* The arguments the model calls the functions with.                       *)
(***************************************************************************)
Sexes == {"male", "female"}
StartingBalances == {0, 600000}
TargetIncomes == {0, 50000, 200000}
RetireAges == {67, 82}
Scenarios == {"poor", "average", "strong"}
AllocPcts == {0, 50, 100}
Deferrals == 0..MaxDeferral
SimDeferrals == {0, 1}
Spans == -1..MaxSpan
Assets == {-10000, 0, 60000, 280000, 400000, 700000}
AnnuityPayments == {0, 30000, 100000}
PurchasePrices == {0, 300000, 540000}
PensionAges == {67, 83, 84}
StartAges == {55, 67, 82, 105}

(***************************************************************************)
(* Survival / life expectancy.                                             *)
(***************************************************************************)

\* the default growth rate b of the Gompertz hazard
GompertzB == Lit(9, 100)

\* the default baseline hazard a, by sex
GompertzA(sex) == IF sex = "male" THEN Lit(3, 100000) ELSE Lit(2, 100000)

\* H, the hazard integrated over the year from age to age+1
IntegratedHazard(a, b, age) ==
    The({ FMul(FDiv(a, rate),
               FSub(Exp(FMul(rate, FromInt(age + 1))), Exp(FMul(rate, FromInt(age)))))
          : rate \in {b} })

\* SurvivalFactor with the sign of the exponent lost: exp(H)
SurvivalFactorGrowing(a, b, age) == Exp(IntegratedHazard(a, b, age))

\* exp(-H), the factor s is multiplied by for the year from age to age+1
SurvivalFactor(a, b, age) == Exp(FNeg(IntegratedHazard(a, b, age)))

\* the ages survival_curve is called with
ModelAges == UNION { age0..(age0 + MaxSpan) : age0 \in StartAges \cup RetireAges }

\* exp(-H) of every sex and age: it depends on nothing else, and the variable
\* survival_factors holds it so that it is evaluated once
SurvivalFactors ==
    [sex \in Sexes |->
        [age \in ModelAges |-> SurvivalFactor(GompertzA(sex), GompertzB, age)]]

\* the loop of survival_curve over the ages left, S and s being its variables
RECURSIVE SurvivalLoop(_, _, _, _)
SurvivalLoop(S, s, left, sex) ==
    IF left = << >> THEN S
    ELSE The({ SurvivalLoop(Append(S, s2), s2, Tail(left), sex)
               : s2 \in {FMul(s, survival_factors[sex][Head(left)])} })

\* ages[:-1]
AllButLast(ages) == IF ages = << >> THEN << >> ELSE SubSeq(ages, 1, Len(ages) - 1)

survival_curve(age0, max_age, sex) ==
    LET ages == arange(age0, max_age + 1)
        S    == SurvivalLoop(<< One >>, One, AllButLast(ages), sex)
    IN Series(S, ages)

(***************************************************************************)
(* Lifetime annuity.                                                       *)
(***************************************************************************)
\* the loop of annuity_payout_per_dollar from index t on, pv being its variable
RECURSIVE PresentValue(_, _, _, _, _)
PresentValue(S, v, deferral_years, t, pv) ==
    IF t >= Len(S.index) THEN pv
    ELSE PresentValue(S, v, deferral_years, t + 1,
                      IF t >= deferral_years + 1
                      THEN FAdd(pv, FMul(FPow(v, t), S.values[t + 1]))
                      ELSE pv)

annuity_payout_per_dollar(age0, sex, deferral_years, real_discount, max_age) ==
    The({ IF S = ValueError THEN ValueError
          ELSE The({ IF pv = Zero THEN Zero ELSE FDiv(One, pv)
                     : pv \in {PresentValue(S, FDiv(One, FAdd(One, real_discount)),
                                            deferral_years, 0, Zero)} })
          : S \in {survival_curve(age0, max_age, sex)} })

\* annuity_income_schedule paying a year early, from age0 + deferral_years
annuity_income_schedule_early(purchase_amount, age0, sex, deferral_years, real_discount, max_age) ==
    LET rate == annuity_payout_per_dollar(age0, sex, deferral_years, real_discount, max_age)
    IN IF rate = ValueError THEN ValueError
       ELSE LET ages      == arange(age0, max_age + 1)
                start_age == age0 + deferral_years
                income    == [k \in 1..Len(ages) |->
                                 IF ages[k] >= start_age
                                 THEN FMul(purchase_amount, rate)
                                 ELSE Zero]
            IN [series |-> Series(income, ages), rate |-> rate]

annuity_income_schedule(purchase_amount, age0, sex, deferral_years, real_discount, max_age) ==
    The({ IF rate = ValueError THEN ValueError
          ELSE LET ages      == arange(age0, max_age + 1)
                   start_age == age0 + deferral_years + 1
                   income    == [k \in 1..Len(ages) |->
                                    IF ages[k] >= start_age
                                    THEN FMul(purchase_amount, rate)
                                    ELSE Zero]
               IN [series |-> Series(income, ages), rate |-> rate]
          : rate \in {annuity_payout_per_dollar(age0, sex, deferral_years,
                                                real_discount, max_age)} })

(***************************************************************************)
(* Age Pension (simplified means test), with its default parameters.       *)
(***************************************************************************)
max_single == FromInt(28600)
max_couple == FromInt(43100)
income_free_area_single == FromInt(4940)
income_free_area_couple == FromInt(8736)
income_taper == Lit(1, 2)
assets_threshold_single_home == FromInt(301750)
assets_threshold_couple_home == FromInt(451500)
assets_taper_pa_per_1000 == FromInt(78)
deeming_threshold_single == FromInt(60400)
deem_rate_low == Lit(25, 10000)
deem_rate_high == Lit(225, 10000)
annuity_income_inclusion == Lit(60, 100)
annuity_asset_pct_before84 == Lit(60, 100)
annuity_asset_pct_after84 == Lit(30, 100)
include_annuity_rules == TRUE

deeming_income(financial_assets, deeming_threshold) ==
    LET low  == FMin(financial_assets, deeming_threshold)
        high == FMax(Zero, FSub(financial_assets, deeming_threshold))
    IN FAdd(FMul(low, deem_rate_low), FMul(high, deem_rate_high))

\* max_pension of age_pension_amount
MaxPension(singles) == IF singles THEN max_single ELSE max_couple

\* pension_income_test of age_pension_amount
PensionIncomeTest(assets, annuity_payment, singles) ==
    LET couple_thresh == FMul(deeming_threshold_single, FromInt(2))
        deem_thresh   == IF singles THEN deeming_threshold_single ELSE couple_thresh
        deemed        == deeming_income(assets, deem_thresh)
        assessable_income ==
            IF include_annuity_rules /\ FLt(Zero, annuity_payment)
            THEN FAdd(deemed, FMul(annuity_income_inclusion, annuity_payment))
            ELSE deemed
        free_area == IF singles THEN income_free_area_single ELSE income_free_area_couple
        income_test_reduction ==
            FMax(Zero, FMul(FSub(assessable_income, free_area), income_taper))
    IN FMax(Zero, FSub(MaxPension(singles), income_test_reduction))

\* pension_assets_test without its floor at zero
PensionAssetsTestNoFloor(assets, annuity_purchase_price, age, singles) ==
    LET threshold == IF singles THEN assets_threshold_single_home
                     ELSE assets_threshold_couple_home
        annuity_asset ==
            IF include_annuity_rules /\ FLt(Zero, annuity_purchase_price)
            THEN IF age >= 84
                 THEN FMul(annuity_asset_pct_after84, annuity_purchase_price)
                 ELSE FMul(annuity_asset_pct_before84, annuity_purchase_price)
            ELSE Zero
        assessable_assets == FAdd(assets, annuity_asset)
        assets_excess == FMax(Zero, FSub(assessable_assets, threshold))
        assets_test_reduction ==
            FMul(FDiv(assets_excess, FromInt(1000)), assets_taper_pa_per_1000)
    IN FSub(MaxPension(singles), assets_test_reduction)

\* pension_assets_test of age_pension_amount
PensionAssetsTest(assets, annuity_purchase_price, age, singles) ==
    LET threshold == IF singles THEN assets_threshold_single_home
                     ELSE assets_threshold_couple_home
        annuity_asset ==
            IF include_annuity_rules /\ FLt(Zero, annuity_purchase_price)
            THEN IF age >= 84
                 THEN FMul(annuity_asset_pct_after84, annuity_purchase_price)
                 ELSE FMul(annuity_asset_pct_before84, annuity_purchase_price)
            ELSE Zero
        assessable_assets == FAdd(assets, annuity_asset)
        assets_excess == FMax(Zero, FSub(assessable_assets, threshold))
        assets_test_reduction ==
            FMul(FDiv(assets_excess, FromInt(1000)), assets_taper_pa_per_1000)
    IN FMax(Zero, FSub(MaxPension(singles), assets_test_reduction))

age_pension_amount(assets, annuity_payment, annuity_purchase_price, age, singles) ==
    FMin(PensionIncomeTest(assets, annuity_payment, singles),
         PensionAssetsTest(assets, annuity_purchase_price, age, singles))

(***************************************************************************)
(* Main simulation.                                                        *)
(***************************************************************************)
\* the default real returns and annuity discount rate of simulate_retirement
real_return_poor == Lit(1, 100)
real_return_avg == Lit(4, 100)
real_return_strong == Lit(7, 100)
r_ann == Lit(15, 1000)

None == [none |-> TRUE]

Init ==
    /\ pc = "idle"
    /\ call = None
    /\ survival_factors = SurvivalFactors
    /\ params = None
    /\ annuity_premium = None
    /\ ann_income_series = None
    /\ ann_rate = None
    /\ r = None
    /\ surv = None
    /\ bal = None
    /\ abp_balances = << >>
    /\ abp_income = << >>
    /\ age_pension = << >>
    /\ annuity_income = << >>
    /\ total_income = << >>
    /\ df = None

\* ages of simulate_retirement
ages == arange(params.retire_age, params.max_age + 1)

\* the scenario's real return
ScenarioReturn(scenario) ==
    CASE scenario = "poor" -> real_return_poor
      [] scenario = "average" -> real_return_avg
      [] scenario = "strong" -> real_return_strong

\* need without its floor at zero
NeedNoFloor(target_income, a_income, pension) ==
    FSub(FSub(target_income, a_income), pension)

\* need: the funding gap of the year
Need(target_income, a_income, pension) ==
    FMax(Zero, FSub(FSub(target_income, a_income), pension))

\* draw without its cap
DrawUncapped(need, balance, return) == need

\* draw with max for min
DrawMax(need, balance, return) == FMax(need, FMul(balance, FAdd(One, return)))

\* draw: the gap, capped at the balance after investment growth
Draw(need, balance, return) == FMin(need, FMul(balance, FAdd(One, return)))

\* the balance at the end of the year, the draw taken before the growth
EndBalanceDrawFirst(balance, return, draw) ==
    FMul(FSub(balance, draw), FAdd(One, return))

\* the balance at the end of the year
EndBalance(balance, return, draw) == FSub(FMul(balance, FAdd(One, return)), draw)

\* total_income without the pension
TotalIncomeNoPension(draw, pension, a_income) == FAdd(draw, a_income)

\* the year's entry of total_income
TotalIncome(draw, pension, a_income) == FAdd(FAdd(draw, pension), a_income)

\* the year's pension
Pension(include_age_pension, balance, a_income, premium, age, singles) ==
    IF include_age_pension
    THEN age_pension_amount(balance, a_income, premium, age, singles)
    ELSE Zero

\* annuity_premium with annuity_alloc_pct taken for a percentage
AnnuityPremiumPercent(starting_balance, annuity_alloc_pct) ==
    FDiv(FMul(starting_balance, annuity_alloc_pct), FromInt(100))

\* annuity_premium, the allocation to the annuity at t=0
AnnuityPremium(starting_balance, annuity_alloc_pct) ==
    FMul(starting_balance, annuity_alloc_pct)

\* simulate_retirement up to its loop: the allocation to the annuity, the
\* annuity's schedule, the scenario's return and the survival curve
simulate_retirement_begin(p) ==
    /\ pc = "idle"
    /\ params' = p
    /\ \E premium \in {AnnuityPremium(p.starting_balance, p.annuity_alloc_pct)} :
       \E abp_balance \in {FSub(p.starting_balance, premium)} :
       \E schedule \in {annuity_income_schedule(premium, p.retire_age, p.sex,
                             p.annuity_deferral_years, r_ann, p.max_age)} :
          IF schedule = ValueError
          THEN /\ pc' = "fault"
               /\ UNCHANGED << survival_factors, call, annuity_premium, ann_income_series, ann_rate,
                               r, surv, bal, abp_balances, abp_income, age_pension,
                               annuity_income, total_income, df >>
          ELSE /\ pc' = "loop"
               /\ annuity_premium' = premium
               /\ ann_income_series' = schedule.series
               /\ ann_rate' = schedule.rate
               /\ r' = ScenarioReturn(p.scenario)
               /\ abp_balances' = << abp_balance >>
               /\ surv' = survival_curve(p.retire_age, p.max_age, p.sex)
               /\ bal' = abp_balance
               /\ UNCHANGED << survival_factors, call, abp_income, age_pension, annuity_income,
                               total_income, df >>

\* one iteration of the loop of simulate_retirement
simulate_retirement_year ==
    /\ pc = "loop"
    /\ Len(abp_income) < Len(ages)
    /\ \E age \in {ages[Len(abp_income) + 1]} :
       \E a_income \in {Loc(ann_income_series, age)} :
       \E pension \in {Pension(params.include_age_pension, bal, a_income,
                               annuity_premium, age, params.singles)} :
       \E need \in {Need(params.target_income, a_income, pension)} :
       \E draw \in {Draw(need, bal, r)} :
          /\ bal' = EndBalance(bal, r, draw)
          /\ abp_balances' = Append(abp_balances, bal')
          /\ abp_income' = Append(abp_income, draw)
          /\ age_pension' = Append(age_pension, pension)
          /\ annuity_income' = Append(annuity_income, a_income)
          /\ total_income' = Append(total_income, TotalIncome(draw, pension, a_income))
    /\ UNCHANGED << survival_factors, pc, call, params, annuity_premium, ann_income_series, ann_rate,
                    r, surv, df >>

\* the DataFrame of simulate_retirement, one row per age
DataFrame ==
    [k \in 1..Len(ages) |->
        [age |-> ages[k],
         abp_income |-> abp_income[k],
         age_pension |-> age_pension[k],
         annuity_income |-> annuity_income[k],
         total_income |-> total_income[k],
         abp_balance_end |-> abp_balances[k + 1],
         survival_prob |-> surv.values[k]]]

\* simulate_retirement returns
simulate_retirement_return ==
    /\ pc = "loop"
    /\ Len(abp_income) = Len(ages)
    /\ df' = DataFrame
    /\ pc' = "done"
    /\ UNCHANGED << survival_factors, call, params, annuity_premium, ann_income_series, ann_rate, r,
                    surv, bal, abp_balances, abp_income, age_pension,
                    annuity_income, total_income >>

\* the arguments simulate_retirement is called with
SimulationParameters ==
    { [starting_balance |-> FromInt(sb), retire_age |-> ra, sex |-> sx,
       target_income |-> FromInt(ti), scenario |-> sc,
       annuity_alloc_pct |-> Lit(pct, 100), annuity_deferral_years |-> d,
       singles |-> sg, include_age_pension |-> ip, max_age |-> ra + span] :
        sb \in StartingBalances, ti \in TargetIncomes, ra \in RetireAges,
        sx \in Sexes, sc \in Scenarios, pct \in AllocPcts, d \in SimDeferrals,
        sg \in BOOLEAN, ip \in BOOLEAN, span \in Spans }

\* a call of simulate_retirement
simulate_retirement == \E p \in SimulationParameters : simulate_retirement_begin(p)

\* a call of survival_curve
call_survival_curve ==
    /\ pc = "idle"
    /\ \E age0 \in StartAges, span \in Spans, sex \in Sexes :
        call' = [fn |-> "survival_curve", age0 |-> age0, max_age |-> age0 + span,
                 sex |-> sex, ret |-> survival_curve(age0, age0 + span, sex)]
    /\ pc' = "returned"
    /\ UNCHANGED simvars

\* a call of annuity_income_schedule
call_annuity_income_schedule ==
    /\ pc = "idle"
    /\ \E amount \in PurchasePrices, age0 \in RetireAges, sex \in Sexes,
          d \in Deferrals, span \in Spans :
        call' = [fn |-> "annuity_income_schedule", purchase_amount |-> FromInt(amount),
                 age0 |-> age0, sex |-> sex, deferral_years |-> d,
                 max_age |-> age0 + span,
                 ret |-> annuity_income_schedule(FromInt(amount), age0, sex, d,
                                                 r_ann, age0 + span)]
    /\ pc' = "returned"
    /\ UNCHANGED simvars

\* a call of age_pension_amount
call_age_pension_amount ==
    /\ pc = "idle"
    /\ \E assets \in Assets, payment \in AnnuityPayments, price \in PurchasePrices,
          age \in PensionAges, singles \in BOOLEAN :
        call' = [fn |-> "age_pension_amount", assets |-> FromInt(assets),
                 annuity_payment |-> FromInt(payment),
                 annuity_purchase_price |-> FromInt(price), age |-> age,
                 singles |-> singles,
                 ret |-> age_pension_amount(FromInt(assets), FromInt(payment),
                                            FromInt(price), age, singles)]
    /\ pc' = "returned"
    /\ UNCHANGED simvars

Next ==
    \/ simulate_retirement
    \/ simulate_retirement_year
    \/ simulate_retirement_return
    \/ call_survival_curve
    \/ call_annuity_income_schedule
    \/ call_age_pension_amount

Spec == Init /\ [][Next]_vars

(***************************************************************************)
(* The properties checked.                                                 *)
(***************************************************************************)
\* simulate_retirement is in its loop or has returned
Simulating == pc \in {"loop", "done"}

\* the years simulated so far
Years == 1..Len(abp_income)

\* the balance of year k after investment growth, bal*(1+r)
Grown(k) == FMul(abp_balances[k], FAdd(One, r))

\* the funding gap of year k, from what the year recorded
Gap(k) == Need(params.target_income, annuity_income[k], age_pension[k])

\* C1: the balance at the end of every simulated year is >= 0, and the draw
\* of each year never exceeds that year's grown balance bal*(1+r).
C1_BalanceNeverNegative ==
    Simulating =>
        \A k \in Years :
            /\ abp_balances[k + 1].m >= 0
            /\ FLe(abp_income[k], Grown(k))

\* C1's case: a year whose draw was capped at the grown balance
C1_Witness ==
    /\ pc = "done"
    /\ \E k \in Years :
        /\ abp_income[k].m > 0
        /\ FLt(abp_income[k], Gap(k))
        /\ abp_balances[k + 1] = Zero

\* C2: in every row, total_income is exactly
\* abp_income + age_pension + annuity_income.
C2_TotalIsSum ==
    /\ Simulating =>
        \A k \in Years :
            total_income[k] = FAdd(FAdd(abp_income[k], age_pension[k]), annuity_income[k])
    /\ pc = "done" =>
        \A k \in 1..Len(df) :
            df[k].total_income =
                FAdd(FAdd(df[k].abp_income, df[k].age_pension), df[k].annuity_income)

\* C2's case: a returned row with all three incomes positive
C2_Witness ==
    /\ pc = "done"
    /\ \E k \in 1..Len(df) :
        /\ df[k].abp_income.m > 0
        /\ df[k].age_pension.m > 0
        /\ df[k].annuity_income.m > 0

\* C3 as stated: if the grown balance of a year is less than the year's
\* funding gap, the draw exhausts the balance to zero and total_income is
\* below target_income in that year and in every later year.
C3_ShortfallForever ==
    Simulating =>
        \A k \in Years :
            FLt(Grown(k), Gap(k)) =>
                /\ abp_balances[k + 1] = Zero
                /\ \A j \in Years :
                    j >= k => FLt(total_income[j], params.target_income)

\* C3 as amended: if the grown balance of a year is less than the year's
\* funding gap, the draw is the whole grown balance, less than the gap, and
\* leaves a zero balance; in every later year the balance and the draw are
\* zero and total_income is the annuity income plus the pension alone.
C3_ShortfallExhausts ==
    Simulating =>
        \A k \in Years :
            FLt(Grown(k), Gap(k)) =>
                /\ abp_income[k] = Grown(k)
                /\ FLt(abp_income[k], Gap(k))
                /\ abp_balances[k + 1] = Zero
                /\ \A j \in Years :
                    j > k =>
                        /\ abp_balances[j + 1] = Zero
                        /\ abp_income[j] = Zero
                        /\ total_income[j] = FAdd(age_pension[j], annuity_income[j])

\* C3's case: a shortfall year with a positive draw, and a later year in
\* which the annuity and the pension alone reach the target
C3_Witness ==
    /\ pc = "done"
    /\ \E k \in Years :
        /\ FLt(Grown(k), Gap(k))
        /\ abp_income[k].m > 0
        /\ \E j \in Years :
            j > k /\ FLe(params.target_income, total_income[j])

\* C4: for an inverted age range survival_curve and simulate_retirement
\* raise no fault: the one returns a curve, the other returns.
C4_InvertedRangeNoFault ==
    /\ pc # "fault"
    /\ (pc = "returned" /\ call.fn = "survival_curve") => call.ret # ValueError

\* the maximum pension of a call of age_pension_amount
CallMaxPension == MaxPension(call.singles)

\* C5: the pension age_pension_amount returns is the minimum of the income
\* test's and the assets test's results and lies between 0 and the
\* applicable maximum pension, and so does every simulated year's pension.
C5_PensionWithinBounds ==
    /\ (pc = "returned" /\ call.fn = "age_pension_amount") =>
        /\ call.ret = FMin(PensionIncomeTest(call.assets, call.annuity_payment,
                                             call.singles),
                           PensionAssetsTest(call.assets, call.annuity_purchase_price,
                                             call.age, call.singles))
        /\ call.ret.m >= 0
        /\ FLe(call.ret, CallMaxPension)
    /\ Simulating =>
        \A k \in Years :
            /\ age_pension[k].m >= 0
            /\ FLe(age_pension[k], MaxPension(params.singles))

\* C5's case: a call in which the assets test binds, strictly between 0 and
\* the maximum pension
C5_Witness ==
    /\ pc = "returned"
    /\ call.fn = "age_pension_amount"
    /\ call.ret.m > 0
    /\ FLt(call.ret, CallMaxPension)
    /\ FLt(call.ret, PensionIncomeTest(call.assets, call.annuity_payment, call.singles))

\* the schedule: 0 before first_age, amount * rate from first_age on
FlatFrom(series, first_age, amount, rate) ==
    \A k \in 1..Len(series.index) :
        series.values[k] =
            IF series.index[k] >= first_age THEN FMul(amount, rate) ELSE Zero

\* C6: for age0 <= max_age annuity_income_schedule returns a schedule over
\* the ages age0..max_age that is 0 at every age before
\* age0 + deferral_years + 1 and purchase_amount * rate at every age from
\* there to max_age; the rate is >= 0, and 0 when the first payment age is
\* past max_age.
C6_ScheduleFlatAfterDeferral ==
    /\ (pc = "returned" /\ call.fn = "annuity_income_schedule"
            /\ call.age0 <= call.max_age) =>
        /\ call.ret # ValueError
        /\ call.ret.series.index = arange(call.age0, call.max_age + 1)
        /\ FlatFrom(call.ret.series, call.age0 + call.deferral_years + 1,
                    call.purchase_amount, call.ret.rate)
        /\ call.ret.rate.m >= 0
        /\ (call.age0 + call.deferral_years + 1 > call.max_age
                => call.ret.rate = Zero)
    /\ Simulating =>
        /\ FlatFrom(ann_income_series,
                    params.retire_age + params.annuity_deferral_years + 1,
                    annuity_premium, ann_rate)
        /\ ann_rate.m >= 0

\* C6's case: a schedule that is 0 in its first years and positive after
C6_Witness ==
    /\ pc = "returned"
    /\ call.fn = "annuity_income_schedule"
    /\ call.ret # ValueError
    /\ call.deferral_years >= 1
    /\ Len(call.ret.series.values) >= 3
    /\ call.ret.series.values[2] = Zero
    /\ call.ret.series.values[3].m > 0

\* C7: when annuity_alloc_pct = 1.0, the balance at the end of every
\* simulated year and the draw of every year are 0.
C7_FullyAnnuitized ==
    (Simulating /\ params.annuity_alloc_pct = One) =>
        \A k \in Years :
            /\ abp_balances[k + 1] = Zero
            /\ abp_income[k] = Zero

\* C7's case: a whole positive balance annuitized, with a positive target
\* and years simulated
C7_Witness ==
    /\ pc = "done"
    /\ params.annuity_alloc_pct = One
    /\ params.starting_balance.m > 0
    /\ params.target_income.m > 0
    /\ Len(abp_income) >= 2
    /\ FLt(total_income[1], params.target_income)

\* C8: when target_income = 0, the draw of every simulated year is 0 and
\* the balance at the end of each year is the balance at the end of the
\* year before (the balance after the allocation, for the first year) times
\* (1 + scenario return).
C8_ZeroTargetGrowsOnly ==
    (Simulating /\ params.target_income = Zero) =>
        \A k \in Years :
            /\ abp_income[k] = Zero
            /\ abp_balances[k + 1] =
                   FMul(abp_balances[k], FAdd(One, ScenarioReturn(params.scenario)))

\* C8's case: no target, a positive balance that grew over two years while
\* a pension or an annuity was paid
C8_Witness ==
    /\ pc = "done"
    /\ params.target_income = Zero
    /\ Len(abp_income) >= 2
    /\ FLt(abp_balances[1], abp_balances[2])
    /\ FLt(abp_balances[2], abp_balances[3])
    /\ total_income[2].m > 0

\* the curve of the ages age0..max_age: as long as the range, starting at
\* 1.0, each value the one before times a factor in (0, 1]
IsSurvivalCurve(curve, age0, max_age, sex) ==
    /\ curve # ValueError
    /\ curve.index = [k \in 1..(max_age - age0 + 1) |-> age0 + k - 1]
    /\ Len(curve.values) = max_age - age0 + 1
    /\ curve.values[1] = One
    /\ \A k \in 1..(Len(curve.values) - 1) :
        LET factor == SurvivalFactor(GompertzA(sex), GompertzB, curve.index[k])
        IN /\ factor.m > 0
           /\ FLe(factor, One)
           /\ curve.values[k + 1] = FMul(curve.values[k], factor)
           /\ FLe(curve.values[k + 1], curve.values[k])
    /\ age0 = max_age => curve = [index |-> << age0 >>, values |-> << One >>]

\* C9: for start_age <= max_age the curve of survival_curve has
\* max_age - start_age + 1 entries indexed by the ages start_age..max_age,
\* starts at 1.0 and is non-increasing, each value the one before times a
\* factor in (0, 1]; for start_age = max_age it is the one point
\* (start_age, 1.0).
C9_SurvivalCurveShape ==
    /\ (pc = "returned" /\ call.fn = "survival_curve"
            /\ call.age0 <= call.max_age) =>
        IsSurvivalCurve(call.ret, call.age0, call.max_age, call.sex)
    /\ (Simulating /\ params.retire_age <= params.max_age) =>
        IsSurvivalCurve(surv, params.retire_age, params.max_age, params.sex)

\* C9's case: a curve of three ages that strictly decreases
C9_Witness ==
    /\ pc = "returned"
    /\ call.fn = "survival_curve"
    /\ call.max_age = call.age0 + 2
    /\ call.ret # ValueError
    /\ FLt(call.ret.values[2], call.ret.values[1])
    /\ FLt(call.ret.values[3], call.ret.values[2])

\* C10 as stated: in every simulated year that ends with a positive
\* balance total_income >= target_income, and once the balance is 0 it is
\* 0, with a draw of 0, in every later year.
C10_TargetMetWhileFunded ==
    Simulating =>
        \A k \in Years :
            /\ abp_balances[k + 1].m > 0 => FLe(params.target_income, total_income[k])
            /\ (abp_balances[k + 1] = Zero /\ k + 1 \in Years) =>
                   /\ abp_balances[k + 2] = Zero
                   /\ abp_income[k + 1] = Zero

\* C10 as amended: in every simulated year that ends with a positive
\* balance the draw is the whole funding gap
\* max(0, target_income - annuity income - pension), and once the balance
\* is 0 it is 0, with a draw of 0, in every later year.
C10_GapDrawnWhileFunded ==
    Simulating =>
        \A k \in Years :
            /\ abp_balances[k + 1].m > 0 => abp_income[k] = Gap(k)
            /\ (abp_balances[k + 1] = Zero /\ k + 1 \in Years) =>
                   /\ abp_balances[k + 2] = Zero
                   /\ abp_income[k + 1] = Zero

\* C10's case: a year that ends with a positive balance after a positive
\* draw, and a later year that starts and ends with a zero balance
C10_Witness ==
    /\ pc = "done"
    /\ \E k \in Years :
        /\ abp_balances[k + 1].m > 0
        /\ abp_income[k].m > 0
        /\ \E j \in Years :
            j > k + 1 /\ abp_balances[j] = Zero /\ abp_balances[j + 1] = Zero
====
